---- MODULE Spec2Model ----
(***************************************************************************)
(* Model of just-enough-logger's Logger class (src/src/index.ts, the       *)
(* current version of the class, lines 214-452) together with the two      *)
(* sinks it calls into: the node filesystem and the console.               *)
(*                                                                         *)
(* Strings are sequences of tokens, so that concatenation, the newline the *)
(* file transport appends and the colour wrapping of the console transport *)
(* are observable.  A path is the sequence of its segments; an absolute    *)
(* path starts with the segment "/"; the empty string is <<>>.             *)
(***************************************************************************)
EXTENDS Integers, Sequences, FiniteSets, TLC

(***************************************************************************)
(* Bounds                                                                  *)
(***************************************************************************)
MaxLoggers == 2
MaxCalls == 2
MaxTime == 1
MaxChdir == 1

(***************************************************************************)
(* Values of the language                                                  *)
(***************************************************************************)
\* An option slot of the object passed to the constructor: the key is absent,
\* or present with the value undefined, or present with a value.  d is a
\* placeholder of the slot's type.
Absent(d) == [absent |-> TRUE, undef |-> TRUE, v |-> d]
Undefined(d) == [absent |-> FALSE, undef |-> TRUE, v |-> d]
Val(x) == [absent |-> FALSE, undef |-> FALSE, v |-> x]

Levels == {"info", "warn", "error"}
Messages == {"disk full"}

NL == "\n"

toUpperCase(level) ==
  CASE level = "info" -> "INFO"
    [] level = "warn" -> "WARN"
    [] level = "error" -> "ERROR"

(***************************************************************************)
(* colors: yellow and red wrap the text in an ANSI colour escape pair      *)
(***************************************************************************)
yellow(s) == <<"ESC[33m">> \o s \o <<"ESC[39m">>
red(s) == <<"ESC[31m">> \o s \o <<"ESC[39m">>

(***************************************************************************)
(* path: resolve and parse(...).dir                                        *)
(***************************************************************************)
Root == <<"/">>
IsAbsolute(p) == Len(p) > 0 /\ p[1] = "/"
resolve(base, p) == IF IsAbsolute(p) THEN p ELSE base \o p
parseDir(p) ==
  IF Len(p) = 0 THEN <<>>
  ELSE IF p = Root THEN Root
  ELSE SubSeq(p, 1, Len(p) - 1)

(***************************************************************************)
(* Formatters.  __formatter is the default template; the other two are the *)
(* custom formatters of the test suite and of the README.  t is the clock  *)
(* reading taken by the evaluation.                                        *)
(***************************************************************************)
__formatter(message, level, t) ==
  <<ToString(t), " : [", toUpperCase(level), "] : ", message>>
formatTest(message, level, t) == <<level, ":", message>>
formatReadme(message, level, t) == <<ToString(t), " ", level, " ", message>>

CustomFormatters == {"formatTest", "formatReadme"}

Apply_default(f, message, level, t) == __formatter(message, level, t)
Apply(f, message, level, t) ==
  CASE f = "__formatter" -> __formatter(message, level, t)
    [] f = "formatTest" -> formatTest(message, level, t)
    [] f = "formatReadme" -> formatReadme(message, level, t)

(***************************************************************************)
(* State                                                                   *)
(***************************************************************************)
VARIABLES
  cwd,       \* process.cwd(): an absolute directory path
  dirs,      \* filesystem: the set of existing directories
  files,     \* filesystem: existing regular file |-> its content
  console,   \* the console sink: sequence of [method, text]
  loggers,   \* the Logger objects, in order of construction, each with the
             \* filesystem calls it has made: [op, path]
  clock,     \* the wall clock new Date() reads
  nCalls,    \* number of info/warn/error calls made so far
  nChdir,    \* number of process.chdir calls made so far
  lastCall   \* the call into a Logger made by the last step, if it was one,
             \* and how it ended

vars == <<cwd, dirs, files, console, loggers, clock, nCalls, nChdir, lastCall>>

(***************************************************************************)
(* The filesystem (node's fs module).  An fs value is the record           *)
(* [dirs, files, log, err]: directories, files, the calls made by the      *)
(* running constructor and the error thrown by its last call ("" when it   *)
(* returned normally).                                                     *)
(***************************************************************************)
NoErr == ""

Logged(fs, op, p) ==
  [fs EXCEPT !.log = Append(@, [op |-> op, path |-> p])]

Exists(fs, wd, p) ==
  /\ p # <<>>
  /\ (resolve(wd, p) \in fs.dirs \/ resolve(wd, p) \in DOMAIN fs.files)

\* fs.existsSync(p): the call is logged, the answer is Exists
existsSync(fs, p) == Logged(fs, "existsSync", p)

\* fs.mkdirSync(p), not recursive
mkdirSync(fs, wd, p) ==
  LET a == resolve(wd, p)
      l == Logged(fs, "mkdirSync", p)
  IN  IF p = <<>> \/ parseDir(a) \notin fs.dirs THEN [l EXCEPT !.err = "ENOENT"]
      ELSE IF Exists(fs, wd, p) THEN [l EXCEPT !.err = "EEXIST"]
      ELSE [l EXCEPT !.dirs = @ \cup {a}]

\* fs.openSync(p, "w"): creates the file, or truncates it when it exists
openSync(fs, wd, p) ==
  LET a == resolve(wd, p)
      l == Logged(fs, "openSync", p)
  IN  IF p = <<>> \/ parseDir(a) \notin fs.dirs THEN [l EXCEPT !.err = "ENOENT"]
      ELSE IF a \in fs.dirs THEN [l EXCEPT !.err = "EISDIR"]
      ELSE [l EXCEPT !.files = [q \in DOMAIN fs.files \cup {a} |->
                                  IF q = a THEN <<>> ELSE fs.files[q]]]

\* No stream: the initial value of __fileStream
NullStream == [state |-> "null", target |-> <<>>, pending |-> <<>>]

\* fs.createWriteStream(p, {flags: "a"}): the stream object is returned at
\* once; its descriptor is opened in append mode (creating the file when it
\* is missing) and a failure of that open is not thrown to the caller.
StreamFor(fs, wd, p) ==
  LET a == resolve(wd, p)
  IN  IF p = <<>> \/ parseDir(a) \notin fs.dirs \/ a \in fs.dirs
      THEN [state |-> "failed", target |-> a, pending |-> <<>>]
      ELSE [state |-> "open", target |-> a, pending |-> <<>>]

createWriteStream(fs, wd, p) ==
  LET a == resolve(wd, p)
      l == Logged(fs, "createWriteStream", p)
  IN  IF StreamFor(fs, wd, p).state = "open" /\ a \notin DOMAIN fs.files
      THEN [l EXCEPT !.files = [q \in DOMAIN fs.files \cup {a} |->
                                  IF q = a THEN <<>> ELSE fs.files[q]]]
      ELSE l

(***************************************************************************)
(* class Logger                                                            *)
(***************************************************************************)
\* The field initialiser of options: the defaults, computed at construction
DefaultOptions(wd) ==
  [transports |-> Val(<<"file", "console">>),
   file |-> Val(resolve(wd, <<"log.log">>)),
   formatter |-> Val("__formatter")]

\* {...this.options, ...options}: every key present in options wins, also
\* when its value is undefined
Spread(d, o) ==
  [k \in DOMAIN d |-> IF o[k].absent THEN d[k] ELSE o[k]]

\* transports.indexOf(name) > -1
Includes(transports, name) ==
  \E k \in 1..Len(transports) : transports[k] = name

__shouldWriteToFile_always(options) == TRUE
__shouldWriteToFile(options) == Includes(options.transports.v, "file")
__shouldWriteToConsole(options) == Includes(options.transports.v, "console")

\* a string (or undefined) used as a condition
Truthy_defined(slot) == ~slot.undef
Truthy(slot) == ~slot.undef /\ slot.v # <<>>

__createLogFile_fileOnly(options, fs, wd) ==
  LET file == options.file.v
      f3 == existsSync(fs, file)
      f4 == IF ~Exists(fs, wd, file) THEN openSync(f3, wd, file) ELSE f3
  IN  IF ~Truthy(options.file) THEN fs ELSE f4

__createLogFile_noMkdir(options, fs, wd) ==
  LET file == options.file.v
      f1 == existsSync(fs, parseDir(file))
      f3 == existsSync(f1, file)
      f4 == IF ~Exists(f1, wd, file) THEN openSync(f3, wd, file) ELSE f3
  IN  IF ~Truthy(options.file) THEN fs ELSE f4

__createLogFile(options, fs, wd) ==
  LET file == options.file.v
      dir == parseDir(file)
      f1 == existsSync(fs, dir)
      f2 == IF ~Exists(fs, wd, dir) THEN mkdirSync(f1, wd, dir) ELSE f1
      f3 == existsSync(f2, file)
      f4 == IF ~Exists(f2, wd, file) THEN openSync(f3, wd, file) ELSE f3
  IN  IF ~Truthy(options.file) THEN fs
      ELSE IF f2.err # NoErr THEN f2
      ELSE f4

\* new Logger(o) with the filesystem fs and the working directory wd.  The
\* result is the object's fields and the filesystem after the call, with the
\* calls the constructor made and the error it threw ("" for none).
Constructor(o, fs, wd) ==
  LET options == Spread(DefaultOptions(wd), o)
      f1 == __createLogFile(options, fs, wd)
      f2 == createWriteStream(f1, wd, options.file.v)
  IN  IF options.transports.undef
      THEN [options |-> options, stream |-> NullStream,
            fs |-> [fs EXCEPT !.err = "TypeError"]]
      ELSE IF ~__shouldWriteToFile(options)
      THEN [options |-> options, stream |-> NullStream, fs |-> fs]
      ELSE IF f1.err # NoErr
      THEN [options |-> options, stream |-> NullStream, fs |-> f1]
      ELSE IF options.file.undef
      THEN [options |-> options, stream |-> NullStream,
            fs |-> [f1 EXCEPT !.err = "TypeError"]]
      ELSE [options |-> options, stream |-> StreamFor(f1, wd, options.file.v),
            fs |-> f2]

\* __writeToConsole: the console method called and the text it is given
__writeToConsole(out, message, level) ==
  CASE level = "warn" -> Append(out, [method |-> level, text |-> yellow(message)])
    [] level = "error" -> Append(out, [method |-> level, text |-> red(message)])
    [] level = "info" -> Append(out, [method |-> level, text |-> message])

\* WriteStream.write(chunk): the chunk is queued behind the chunks written
\* before it; a stream whose open failed takes no data
StreamWrite(stream, chunk) ==
  IF stream.state = "open"
  THEN [stream EXCEPT !.pending = Append(@, chunk)]
  ELSE stream

\* __writeToFile: the object after the call
__writeToFile(logger, message) ==
  IF Truthy(logger.options.file) /\ logger.stream.state # "null"
  THEN [logger EXCEPT
          !.stream = StreamWrite(@, message \o <<NL>>),
          !.calls = Append(@, [op |-> "write", path |-> logger.options.file.v])]
  ELSE logger

\* The clock readings an evaluation of formatter f may take
Readings(f) == IF f = "formatTest" THEN {clock} ELSE clock..MaxTime

(***************************************************************************)
(* Arguments of the calls                                                  *)
(***************************************************************************)
WorkDirs == {<<"/", "app">>, <<"/", "tmp">>}

\* Spec explores the file option: every kind of path (the last one names an
\* existing directory, which no stream can be opened on), with the file
\* transport selected.  SpecOptions explores the transports and formatter options with
\* the default path.
FileArgs ==
  {Absent(<<>>), Val(<<>>), Val(<<"app.log">>), Val(<<"logs", "app.log">>),
   Val(<<"/", "tmp", "x", "test.log">>),
   Val(<<"/", "tmp", "x", "y", "test.log">>),
   Val(<<"/", "tmp">>)}
FileTransportArgs == {Absent(<<>>), Val(<<"file">>)}

TransportArgs == {Absent(<<>>), Val(<<"file">>), Val(<<"console">>)}
FormatterArgs ==
  {Absent(""), Undefined(""), Val("formatTest"), Val("formatReadme")}

NoRet == [kind |-> "none", path |-> <<>>, stream |-> NullStream]
NoCall == [op |-> "none", id |-> 0, message |-> "", threw |-> NoErr, ret |-> NoRet]

FS == [dirs |-> dirs, files |-> files, log |-> <<>>, err |-> NoErr]

(***************************************************************************)
(* Initial state: no Logger yet, a filesystem with the working directories *)
(***************************************************************************)
Init ==
  /\ cwd = <<"/", "app">>
  /\ dirs = {Root} \cup WorkDirs
  /\ files = [q \in {} |-> <<>>]
  /\ console = <<>>
  /\ loggers = <<>>
  /\ clock = 0
  /\ nCalls = 0
  /\ nChdir = 0
  /\ lastCall = NoCall

(***************************************************************************)
(* Actions                                                                 *)
(***************************************************************************)
\* new Logger({transports, file, formatter})
New(tr, fi, fo) ==
  /\ Len(loggers) < MaxLoggers
  /\ LET id == Len(loggers) + 1
         r == Constructor([transports |-> tr, file |-> fi, formatter |-> fo],
                          FS, cwd)
     IN  /\ dirs' = r.fs.dirs
         /\ files' = r.fs.files
         /\ loggers' = Append(loggers, [ok |-> r.fs.err = NoErr,
                                        options |-> r.options,
                                        stream |-> r.stream,
                                        calls |-> r.fs.log])
         /\ lastCall' = [op |-> "new", id |-> id, message |-> "", threw |-> r.fs.err,
                         ret |-> NoRet]
  /\ UNCHANGED <<cwd, console, clock, nCalls, nChdir>>

\* __write(message, level) on the id-th Logger
__write(id, message, level) ==
  LET logger == loggers[id]
      formatter == logger.options.formatter
  IN  /\ nCalls < MaxCalls
      /\ nCalls' = nCalls + 1
      /\ lastCall' = [op |-> level, id |-> id, message |-> message,
                      threw |-> NoErr, ret |-> NoRet]
      /\ IF ~formatter.undef
         THEN \E t \in Readings(formatter.v) :
                LET formattedMessage == Apply(formatter.v, message, level, t)
                IN  /\ clock' = t
                    /\ console' =
                         IF __shouldWriteToConsole(logger.options)
                         THEN __writeToConsole(console, formattedMessage, level)
                         ELSE console
                    /\ loggers' =
                         IF __shouldWriteToFile(logger.options)
                         THEN [loggers EXCEPT ![id] =
                                 __writeToFile(@, formattedMessage)]
                         ELSE loggers
         ELSE UNCHANGED <<clock, console, loggers>>
      /\ UNCHANGED <<cwd, dirs, files, nChdir>>

info(id, message) == __write(id, message, "info")
warn(id, message) == __write(id, message, "warn")
error(id, message) == __write(id, message, "error")

getLogFilePath(id) ==
  LET file == loggers[id].options.file
  IN  /\ lastCall' = [op |-> "getLogFilePath", id |-> id, message |-> "",
                      threw |-> NoErr,
                      ret |-> IF Truthy(file)
                              THEN [kind |-> "path", path |-> resolve(cwd, file.v),
                                    stream |-> NullStream]
                              ELSE [kind |-> "null", path |-> <<>>,
                                    stream |-> NullStream]]
      /\ UNCHANGED <<cwd, dirs, files, console, loggers, clock, nCalls,
                     nChdir>>

getLogStream(id) ==
  LET stream == loggers[id].stream
  IN  /\ lastCall' = [op |-> "getLogStream", id |-> id, message |-> "",
                      threw |-> NoErr,
                      ret |-> IF stream.state = "null"
                              THEN [kind |-> "null", path |-> <<>>,
                                    stream |-> NullStream]
                              ELSE [kind |-> "stream", path |-> <<>>,
                                    stream |-> stream]]
      /\ UNCHANGED <<cwd, dirs, files, console, loggers, clock, nCalls,
                     nChdir>>

\* The stream of the id-th Logger hands its oldest queued chunk to the file
\* its descriptor is open on
Flush(id) ==
  LET stream == loggers[id].stream
  IN  /\ stream.state = "open"
      /\ stream.pending # <<>>
      /\ files' = [files EXCEPT ![stream.target] = @ \o Head(stream.pending)]
      /\ loggers' = [loggers EXCEPT ![id].stream.pending = Tail(@)]
      /\ lastCall' = NoCall
      /\ UNCHANGED <<cwd, dirs, console, clock, nCalls, nChdir>>

\* The caller changes the working directory of the process
Chdir(d) ==
  /\ nChdir < MaxChdir
  /\ d # cwd
  /\ cwd' = d
  /\ nChdir' = nChdir + 1
  /\ lastCall' = NoCall
  /\ UNCHANGED <<dirs, files, console, loggers, clock, nCalls>>

Live == {id \in 1..Len(loggers) : loggers[id].ok}

Next ==
  \/ \E tr \in FileTransportArgs, fi \in FileArgs : New(tr, fi, Absent(""))
  \/ \E id \in Live, message \in Messages : info(id, message)
  \/ \E id \in Live, message \in Messages : warn(id, message)
  \/ \E id \in Live, message \in Messages : error(id, message)
  \/ \E id \in Live : getLogFilePath(id)
  \/ \E id \in Live : getLogStream(id)
  \/ \E id \in Live : Flush(id)
  \/ \E d \in WorkDirs : Chdir(d)

Spec == Init /\ [][Next]_vars

NextOptions ==
  \/ \E tr \in TransportArgs, fo \in FormatterArgs : New(tr, Absent(<<>>), fo)
  \/ \E id \in Live, message \in Messages : info(id, message)
  \/ \E id \in Live, message \in Messages : warn(id, message)
  \/ \E id \in Live, message \in Messages : error(id, message)
  \/ \E id \in Live : getLogFilePath(id)
  \/ \E id \in Live : getLogStream(id)
  \/ \E id \in Live : Flush(id)
  \/ \E d \in WorkDirs : Chdir(d)

SpecOptions == Init /\ [][NextOptions]_vars

TypeOK ==
  /\ cwd \in WorkDirs
  /\ Len(loggers) <= MaxLoggers
  /\ nCalls <= MaxCalls
  /\ clock \in 0..MaxTime

(***************************************************************************)
(* Vocabulary of the properties                                            *)
(***************************************************************************)
Last(s) == s[Len(s)]

IsPrefix(s, t) == Len(s) <= Len(t) /\ SubSeq(t, 1, Len(s)) = s

\* The step is a call of info, warn or error on the id-th Logger
LogStep(id) == lastCall'.op \in Levels /\ lastCall'.id = id

\* The step is the construction of the id-th Logger
NewStep(id) == lastCall'.op = "new" /\ lastCall'.id = id /\ Len(loggers) = id - 1

\* The operations of calls s
Ops(s) == {s[k].op : k \in 1..Len(s)}

\* The text a console method is given for a formatted message
Styled(level, s) ==
  CASE level = "info" -> s
    [] level = "warn" -> yellow(s)
    [] level = "error" -> red(s)

(***************************************************************************)
(* C1.  A Logger only uses the transports it was configured with: a Logger *)
(* constructed with transports = ["console"] makes no filesystem call (no  *)
(* existence check, no directory or file creation, no stream open, no file *)
(* write), in its construction or in any info/warn/error call, and leaves  *)
(* the filesystem as it was; no info/warn/error call of a Logger           *)
(* constructed with transports = ["file"] writes to the console.           *)
(***************************************************************************)
C1_OnlyConfiguredTransports ==
  [][\A id \in 1..Len(loggers') :
       /\ loggers'[id].options.transports.v = <<"console">>
            => /\ loggers'[id].calls = <<>>
               /\ loggers'[id].stream = NullStream
               /\ (NewStep(id) \/ LogStep(id)) => dirs' = dirs /\ files' = files
       /\ (loggers'[id].options.transports.v = <<"file">> /\ LogStep(id))
            => console' = console]_vars

\* Both cases have happened: a console-only Logger has written to the
\* console, and a file-only Logger has been called and has written its
\* record to its stream
C1_Witness ==
  \E i, j \in 1..Len(loggers) :
    /\ loggers[i].options.transports.v = <<"console">>
    /\ loggers[j].options.transports.v = <<"file">>
    /\ Len(console) = 1
    /\ nCalls = 2
    /\ "write" \in Ops(loggers[j].calls)

(***************************************************************************)
(* C2.  Supplying formatter: undefined does not erase the default          *)
(* formatter: the formatter of every constructed Logger is a function, and *)
(* every info/warn/error call of a Logger constructed without a custom     *)
(* formatter emits the default-formatted message to each active transport: *)
(* one console write of the (styled) text, one record queued on the file   *)
(* stream.  The code erases the default, and such a Logger emits nothing.  *)
(***************************************************************************)
C2_DefaultFormatterNotErased ==
  [][\A id \in 1..Len(loggers') :
       LET logger == loggers'[id]
           level == lastCall'.op
           text == __formatter(lastCall'.message, level, clock')
       IN  /\ logger.ok => ~logger.options.formatter.undef
           /\ (LogStep(id) /\ logger.options.formatter.v \notin CustomFormatters)
                => /\ Includes(logger.options.transports.v, "console")
                        => console' = Append(console, [method |-> level,
                                                       text |-> Styled(level, text)])
                   /\ Includes(logger.options.transports.v, "file")
                        => logger.stream.pending =
                             Append(loggers[id].stream.pending, text \o <<NL>>)
    ]_vars

(***************************************************************************)
(* C3.  The text given by the custom formatter f of a Logger for a call    *)
(***************************************************************************)
C3_Custom(f, message, level, t) ==
  IF f = "formatTest" THEN formatTest(message, level, t)
  ELSE formatReadme(message, level, t)

\* C3 as stated: given a custom formatter f, every info/warn/error call with
\* message m and level l emits exactly f(m, l) to the console and
\* f(m, l) + "\n" to the file.  The console is given the styled text for
\* warn and error, so this fails.
C3_EmitsExactlyF ==
  [][\A id \in 1..Len(loggers') :
       LET logger == loggers'[id]
           level == lastCall'.op
           text == C3_Custom(logger.options.formatter.v, lastCall'.message,
                             level, clock')
       IN  (LogStep(id) /\ logger.options.formatter.v \in CustomFormatters)
             => /\ Includes(logger.options.transports.v, "console")
                     => console' = Append(console, [method |-> level,
                                                    text |-> text])
                /\ Includes(logger.options.transports.v, "file")
                     => logger.stream.pending =
                          Append(loggers[id].stream.pending, text \o <<NL>>)
    ]_vars

\* C3 as amended: given a custom formatter f, every info/warn/error call with
\* message m and level l gives the console f(m, l), unstyled for info,
\* wrapped in yellow for warn and in red for error, and queues
\* f(m, l) + "\n" on the file stream; the default template is never applied
\* and both transports receive the text of one evaluation of f.
C3_EmitsStyledF ==
  [][\A id \in 1..Len(loggers') :
       LET logger == loggers'[id]
           level == lastCall'.op
           text == C3_Custom(logger.options.formatter.v, lastCall'.message,
                             level, clock')
       IN  (LogStep(id) /\ logger.options.formatter.v \in CustomFormatters)
             => /\ Includes(logger.options.transports.v, "console")
                     => console' = Append(console, [method |-> level,
                                                    text |-> Styled(level, text)])
                /\ ~Includes(logger.options.transports.v, "console")
                     => console' = console
                /\ Includes(logger.options.transports.v, "file")
                     => logger.stream.pending =
                          Append(loggers[id].stream.pending, text \o <<NL>>)
    ]_vars

\* A Logger with the README's custom formatter and both transports has
\* logged a warning at a later clock reading: the console holds the styled
\* text and the stream the record
C3_Witness ==
  \E id \in 1..Len(loggers) :
    /\ loggers[id].options.formatter.v = "formatReadme"
    /\ loggers[id].options.transports.v = <<"file", "console">>
    /\ lastCall.op = "warn" /\ lastCall.id = id
    /\ clock = 1
    /\ console # <<>>
    /\ Last(console).text = yellow(formatReadme(lastCall.message, "warn", 1))
    /\ loggers[id].stream.pending # <<>>
    /\ Last(loggers[id].stream.pending) =
         formatReadme(lastCall.message, "warn", 1) \o <<NL>>

(***************************************************************************)
(* C4.  File preparation is idempotent: for the Loggers constructed, with  *)
(* the file transport selected and without a change of working directory,  *)
(* against one non-empty path that did not exist initially, the first      *)
(* construction creates the file (one openSync in "w" mode) and every      *)
(* later one checks the path, finds it and does not create it again.  The  *)
(* first construction throws for a bare file name or a path with two       *)
(* missing directories (C7), and then the file is never created.           *)
(***************************************************************************)
C4_Same(p) ==
  {id \in 1..Len(loggers) :
     /\ Includes(loggers[id].options.transports.v, "file")
     /\ loggers[id].options.file.v = p}

C4_Opens(id, p) ==
  Cardinality({k \in 1..Len(loggers[id].calls) :
                 loggers[id].calls[k] = [op |-> "openSync", path |-> p]})

C4_CreatedExactlyOnce ==
  nChdir = 0 =>
    \A first \in 1..Len(loggers) :
      LET p == loggers[first].options.file.v
      IN  (p # <<>> /\ p \notin {Root} \cup WorkDirs
             /\ first \in C4_Same(p)
             /\ \A id \in C4_Same(p) : first <= id)
            => /\ C4_Opens(first, p) = 1
               /\ \A id \in C4_Same(p) \ {first} :
                    /\ C4_Opens(id, p) = 0
                    /\ [op |-> "existsSync", path |-> p] \in
                         {loggers[id].calls[k] : k \in 1..Len(loggers[id].calls)}

(***************************************************************************)
(* C5.  Given file = "" and transports including "file", no existence      *)
(* check, no directory or file creation and no file write occur: such a    *)
(* Logger never calls existsSync, mkdirSync or openSync, never writes to   *)
(* its stream, and its construction and its info/warn/error calls leave    *)
(* the directories and files as they were.                                 *)
(***************************************************************************)
C5_EmptyFileTouchesNothing ==
  [][\A id \in 1..Len(loggers') :
       LET logger == loggers'[id]
       IN  (/\ Includes(logger.options.transports.v, "file")
            /\ ~logger.options.file.undef
            /\ logger.options.file.v = <<>>)
             => /\ Ops(logger.calls) \cap
                     {"existsSync", "mkdirSync", "openSync", "write"} = {}
                /\ logger.stream.pending = <<>>
                /\ (NewStep(id) \/ LogStep(id)) => dirs' = dirs /\ files' = files
    ]_vars

\* A Logger with file = "" and the file transport has been constructed and
\* has logged
C5_Witness ==
  \E id \in 1..Len(loggers) :
    /\ Includes(loggers[id].options.transports.v, "file")
    /\ loggers[id].options.file = Val(<<>>)
    /\ lastCall.op = "error" /\ lastCall.id = id
    /\ nCalls = 2

(***************************************************************************)
(* C6.  A relative file path is resolved at construction and not           *)
(* reinterpreted later: getLogFilePath() of a Logger constructed with a    *)
(* relative path returns the absolute path the file was created at and the *)
(* stream writes to, also after the working directory has changed.  The    *)
(* code resolves the path again on every getLogFilePath call.              *)
(***************************************************************************)
C6_PathFixedAtConstruction ==
  \A id \in 1..Len(loggers) :
    LET file == loggers[id].options.file.v
    IN  (/\ lastCall.op = "getLogFilePath" /\ lastCall.id = id
         /\ file # <<>> /\ ~IsAbsolute(file))
          => /\ lastCall.ret.kind = "path"
             /\ lastCall.ret.path = loggers[id].stream.target
             /\ lastCall.ret.path \in DOMAIN files

(***************************************************************************)
(* C7.  No exception escapes construction under a missing directory or a   *)
(* missing file: with the file transport selected and any non-empty path   *)
(* that names no existing directory (one or several missing directories,   *)
(* or a bare file name) the                                                *)
(* constructor returns normally and the file exists afterwards.  The code  *)
(* throws ENOENT from mkdirSync for a bare file name and for a path with   *)
(* two missing directories.                                                *)
(***************************************************************************)
C7_ConstructionDoesNotThrow ==
  \A id \in 1..Len(loggers) :
    LET file == loggers[id].options.file.v
    IN  (/\ lastCall.op = "new" /\ lastCall.id = id
         /\ Includes(loggers[id].options.transports.v, "file")
         /\ file # <<>> /\ file \notin {Root} \cup WorkDirs)
          => /\ lastCall.threw = NoErr
             /\ loggers[id].ok
             /\ resolve(cwd, file) \in DOMAIN files

(***************************************************************************)
(* C8.  Constructing a Logger with the file transport and a path whose     *)
(* parent directory does not exist while its grandparent does: the         *)
(* constructor checks the directory, creates it, checks the configured     *)
(* path, creates the file empty with openSync(path, "w"), in this order,   *)
(* and returns normally.                                                   *)
(***************************************************************************)
C8_DirectoryThenFile ==
  [][\A id \in 1..Len(loggers') :
       LET logger == loggers'[id]
           file == logger.options.file.v
           dir == parseDir(file)
           a == resolve(cwd, file)
       IN  (/\ NewStep(id)
            /\ Includes(logger.options.transports.v, "file")
            /\ file # <<>>
            /\ parseDir(a) \notin dirs /\ parseDir(a) \notin DOMAIN files
            /\ parseDir(parseDir(a)) \in dirs)
             => /\ lastCall'.threw = NoErr
                /\ dirs' = dirs \cup {parseDir(a)}
                /\ DOMAIN files' = DOMAIN files \cup {a}
                /\ files'[a] = <<>>
                /\ \A q \in DOMAIN files : files'[q] = files[q]
                /\ logger.calls =
                     << [op |-> "existsSync", path |-> dir],
                        [op |-> "mkdirSync", path |-> dir],
                        [op |-> "existsSync", path |-> file],
                        [op |-> "openSync", path |-> file],
                        [op |-> "createWriteStream", path |-> file] >>
    ]_vars

\* new Logger({transports: ["file"], file: "/tmp/x/test.log"}) has just
\* returned: /tmp/x and the empty file exist
C8_Witness ==
  /\ lastCall.op = "new" /\ lastCall.threw = NoErr
  /\ loggers[lastCall.id].options.transports.v = <<"file">>
  /\ loggers[lastCall.id].options.file.v = <<"/", "tmp", "x", "test.log">>
  /\ Ops(loggers[lastCall.id].calls) =
       {"existsSync", "mkdirSync", "openSync", "createWriteStream"}
  /\ <<"/", "tmp", "x">> \in dirs
  /\ <<"/", "tmp", "x", "test.log">> \in DOMAIN files
  /\ files[<<"/", "tmp", "x", "test.log">>] = <<>>

(***************************************************************************)
(* The text formatter(message, level) of a Logger: its custom formatter's, *)
(* and the default template's otherwise                                    *)
(***************************************************************************)
Formatted(logger, message, level, t) ==
  IF logger.options.formatter.v \in CustomFormatters
  THEN C3_Custom(logger.options.formatter.v, message, level, t)
  ELSE __formatter(message, level, t)

(***************************************************************************)
(* C9.  With the console transport active, each info/warn/error call makes *)
(* exactly one console write, through the method named like the level,     *)
(* with the formatted message unstyled for info, wrapped in yellow for     *)
(* warn and in red for error.  A Logger constructed with                   *)
(* formatter: undefined (C2) makes no console write at all.                *)
(***************************************************************************)
C9_OneConsoleWritePerCall ==
  [][\A id \in 1..Len(loggers') :
       LET logger == loggers'[id]
           level == lastCall'.op
           text == Formatted(logger, lastCall'.message, level, clock')
       IN  (LogStep(id) /\ Includes(logger.options.transports.v, "console"))
             => console' = Append(console,
                  [method |-> level,
                   text |-> CASE level = "info" -> text
                              [] level = "warn" -> yellow(text)
                              [] level = "error" -> red(text)])
    ]_vars

(***************************************************************************)
(* C10.  The log file is append-only with one record per call: with the    *)
(* file transport and a non-empty path, each info/warn/error call queues   *)
(* exactly formatter(message, level) + "\n" on the Logger's stream, behind *)
(* the records queued before; a step that changes a file hands it the      *)
(* oldest queued record of one stream, and no step removes a file or       *)
(* changes what a file already holds.  A Logger constructed with           *)
(* formatter: undefined (C2) writes no record.                             *)
(***************************************************************************)
C10_AppendOnlyOneRecordPerCall ==
  [][/\ \A id \in 1..Len(loggers') :
          LET logger == loggers'[id]
              text == Formatted(logger, lastCall'.message, lastCall'.op, clock')
          IN  (/\ LogStep(id)
               /\ Includes(logger.options.transports.v, "file")
               /\ logger.options.file.v # <<>>)
                => /\ logger.stream.pending =
                        Append(loggers[id].stream.pending, text \o <<NL>>)
                   /\ files' = files
     /\ \A p \in DOMAIN files :
          /\ p \in DOMAIN files'
          /\ IsPrefix(files[p], files'[p])
          /\ files'[p] # files[p]
               => \E id \in 1..Len(loggers) :
                    /\ loggers[id].stream.target = p
                    /\ loggers[id].stream.pending # <<>>
                    /\ files'[p] = files[p] \o Head(loggers[id].stream.pending)
                    /\ loggers'[id].stream.pending =
                         Tail(loggers[id].stream.pending)
    ]_vars

(***************************************************************************)
(* What the stream of a Logger has been given so far, in order: the        *)
(* content of its file followed by the records still queued                *)
(***************************************************************************)
RECURSIVE Flat(_)
Flat(chunks) ==
  IF chunks = <<>> THEN <<>> ELSE Head(chunks) \o Flat(Tail(chunks))

Out(ls, fs, id) == fs[ls[id].stream.target] \o Flat(ls[id].stream.pending)

\* No other Logger of ls has a stream on the file of the id-th
Alone(ls, id) ==
  \A j \in 1..Len(ls) : j # id => ls[j].stream.target # ls[id].stream.target

(***************************************************************************)
(* C11.  Messages reach each selected transport in call order, none        *)
(* dropped: every info/warn/error call of a Logger with the console        *)
(* transport puts one entry of its level behind the entries already on the *)
(* console, and every call of a Logger with the file transport and a       *)
(* non-empty path puts its record, ended by a newline, behind everything   *)
(* its stream was given before; for the only Logger of a file, no other    *)
(* step changes what the stream was given (handing a queued record to the  *)
(* file keeps the order).  A Logger constructed with formatter: undefined  *)
(* (C2) drops every message.                                               *)
(***************************************************************************)
C11_CallOrder ==
  [][\A id \in 1..Len(loggers) :
       LET logger == loggers[id]
           level == lastCall'.op
           text == Formatted(logger, lastCall'.message, level, clock')
       IN  /\ (LogStep(id) /\ Includes(logger.options.transports.v, "console"))
                => /\ Len(console') = Len(console) + 1
                   /\ IsPrefix(console, console')
                   /\ Last(console').method = level
                   /\ \E k \in 1..Len(Last(console').text) :
                        Last(console').text[k] = lastCall'.message
           /\ (logger.stream.state = "open" /\ Alone(loggers', id))
                => IF LogStep(id)
                   THEN Out(loggers', files', id) =
                          Out(loggers, files, id) \o text \o <<NL>>
                   ELSE Out(loggers', files', id) = Out(loggers, files, id)
    ]_vars

(***************************************************************************)
(* The path of a Logger's log file as resolved at its construction: an     *)
(* absolute path (the default <cwd>/log.log is one) is itself, a relative  *)
(* one is where the constructor created the file and opened the stream     *)
(***************************************************************************)
ResolvedAtConstruction(logger) ==
  IF IsAbsolute(logger.options.file.v)
  THEN logger.options.file.v
  ELSE logger.stream.target

(***************************************************************************)
(* C12.  getLogFilePath() returns the resolved path of the log file: for a *)
(* default-configured Logger <cwd>/log.log with the working directory of   *)
(* its construction, for a custom path that path resolved, whatever the    *)
(* transports and whatever info/warn/error calls were made before.  For a  *)
(* relative custom path the code resolves again at the call (C6): after a  *)
(* change of working directory the result is not the path of the log file. *)
(***************************************************************************)
C12_LogFilePath ==
  \A id \in 1..Len(loggers) :
    LET logger == loggers[id]
    IN  (/\ lastCall.op = "getLogFilePath" /\ lastCall.id = id
         /\ logger.options.file.v # <<>>)
          => /\ lastCall.ret.kind = "path"
             /\ IsAbsolute(lastCall.ret.path)
             /\ lastCall.ret.path = ResolvedAtConstruction(logger)

(***************************************************************************)
(* C13.  A failing file write is raised to the caller of the call that     *)
(* made it: an info/warn/error call of a Logger with the file transport    *)
(* whose stream cannot take the record (its open failed) throws.  The code *)
(* writes through a WriteStream, which reports failures by an event after  *)
(* the call: the call returns normally and its record never reaches the    *)
(* file.                                                                   *)
(***************************************************************************)
C13_FaultsSurfaceInCall ==
  [][\A id \in 1..Len(loggers) :
       LET logger == loggers[id]
       IN  (/\ LogStep(id)
            /\ Includes(logger.options.transports.v, "file")
            /\ logger.options.file.v # <<>>
            /\ ~logger.options.formatter.undef
            /\ logger.stream.state = "failed")
             => lastCall'.threw # NoErr
    ]_vars

(***************************************************************************)
(* C14.  A Logger holds a write handle exactly when its file transport is  *)
(* selected and its file path is non-empty: its constructor then made one  *)
(* createWriteStream call, and otherwise none; getLogStream() returns that *)
(* handle, and null when there is none; no call closes or replaces the     *)
(* handle of a Logger.  The code also opens a handle on the empty path.    *)
(***************************************************************************)
C14_HandleOpenedOnce ==
  [][\A id \in 1..Len(loggers') :
       LET logger == loggers'[id]
           wanted == /\ Includes(logger.options.transports.v, "file")
                     /\ logger.options.file.v # <<>>
           opens == {k \in 1..Len(logger.calls) :
                       logger.calls[k].op = "createWriteStream"}
       IN  /\ logger.ok =>
                /\ logger.stream.state # "null" <=> wanted
                /\ Cardinality(opens) = IF wanted THEN 1 ELSE 0
           /\ (lastCall'.op = "getLogStream" /\ lastCall'.id = id) =>
                /\ lastCall'.ret.kind = IF wanted THEN "stream" ELSE "null"
                /\ lastCall'.ret.stream = logger.stream
           /\ id <= Len(loggers) =>
                /\ logger.stream.state = loggers[id].stream.state
                /\ logger.stream.target = loggers[id].stream.target
    ]_vars

(***************************************************************************)
(* Two Loggers have been constructed one after the other against the same  *)
(* path, which did not exist before the first construction (no file exists *)
(* initially, and the path is none of the initial directories); a relative *)
(* path names the same file in both constructions when the working         *)
(* directory has not changed.                                              *)
(***************************************************************************)
Count(calls, op) == Cardinality({k \in 1..Len(calls) : calls[k].op = op})

C15_SameMissingPath(ls, chdirs) ==
  /\ Len(ls) = 2
  /\ \A id \in 1..2 : Includes(ls[id].options.transports.v, "file")
  /\ ls[1].options.file.v = ls[2].options.file.v
  /\ ls[1].options.file.v # <<>>
  /\ ls[1].options.file.v \notin {Root} \cup WorkDirs
  /\ IsAbsolute(ls[1].options.file.v) \/ chdirs = 0

(***************************************************************************)
(* C15 as stated.  Two constructions against the same non-existent path    *)
(* make exactly two existence checks in total, one per construction, and a *)
(* single file-creation call.                                              *)
(***************************************************************************)
C15_TwoExistenceChecks ==
  [][(NewStep(2) /\ C15_SameMissingPath(loggers', nChdir'))
       => /\ Count(loggers'[1].calls, "existsSync") = 1
          /\ Count(loggers'[2].calls, "existsSync") = 1
          /\ Count(loggers'[1].calls, "openSync")
               + Count(loggers'[2].calls, "openSync") = 1
    ]_vars

(***************************************************************************)
(* C15 amended.  Each construction checks the existence of the path's      *)
(* directory and then, unless creating the directory threw, of the path    *)
(* itself.  When the first construction returns, so does the second: four  *)
(* existence checks in total, two per construction, and a single           *)
(* file-creation call, made by the first.  When creating the directory     *)
(* throws in the first construction it throws in the second: one existence *)
(* check each and no file-creation call.                                   *)
(***************************************************************************)
C15_FourExistenceChecks ==
  [][(NewStep(2) /\ C15_SameMissingPath(loggers', nChdir'))
       => LET a == loggers'[1]
              b == loggers'[2]
          IN  IF a.ok
              THEN /\ b.ok
                   /\ Count(a.calls, "existsSync") = 2
                   /\ Count(b.calls, "existsSync") = 2
                   /\ Count(a.calls, "openSync") = 1
                   /\ Count(b.calls, "openSync") = 0
              ELSE /\ ~b.ok
                   /\ Count(a.calls, "existsSync") = 1
                   /\ Count(b.calls, "existsSync") = 1
                   /\ Count(a.calls, "mkdirSync") = 1
                   /\ Count(b.calls, "mkdirSync") = 1
                   /\ Count(a.calls, "openSync") = 0
                   /\ Count(b.calls, "openSync") = 0
    ]_vars

\* The second of two constructions against the same missing path has just
\* returned: four existence checks and one file creation have been made
C15_Witness ==
  /\ lastCall.op = "new" /\ lastCall.id = 2 /\ lastCall.threw = NoErr
  /\ C15_SameMissingPath(loggers, nChdir)
  /\ loggers[1].ok
  /\ Count(loggers[1].calls, "existsSync")
       + Count(loggers[2].calls, "existsSync") = 4
  /\ Count(loggers[1].calls, "openSync")
       + Count(loggers[2].calls, "openSync") = 1

====
